---- MODULE Spec2Model ----
(***************************************************************************)
(* A model of tqsm's sentence segmenter: libtqsm::segment resolves a       *)
(* language through the registry and the fallback table (get_language),    *)
(* then Language::segment splits the text into paragraphs, scans each      *)
(* paragraph for terminator runs, settles every candidate boundary         *)
(* (find_boundary, skip ranges) and slices the paragraph into sentences.   *)
(*                                                                         *)
(* A text is a sequence of characters; a character is a string token: an   *)
(* ASCII character stands for itself, any other character is named by its  *)
(* code point ("U+0301").  Offsets are byte offsets into the UTF-8 text,   *)
(* as in the source.                                                       *)
(***************************************************************************)
EXTENDS Integers, Sequences, FiniteSets, TLC

(***************************************************************************)
(* Bounds of the model.                                                    *)
(***************************************************************************)
\* The longest text is a concatenation of this many vocabulary pieces.
MaxPieces == 3
\* The deepest get_language recursion the model follows before it reports
\* a stack overflow.
MaxDepth == 5

(***************************************************************************)
(* Characters.                                                             *)
(***************************************************************************)
CombAcute == "U+0301"   \* COMBINING ACUTE ACCENT (Grapheme_Extend)
CyrYa     == "U+044F"   \* CYRILLIC SMALL LETTER YA
CyrYaUp   == "U+042F"   \* CYRILLIC CAPITAL LETTER YA
IdeoStop  == "U+3002"   \* IDEOGRAPHIC FULL STOP
ArmStop   == "U+0589"   \* ARMENIAN FULL STOP
ArmExcl   == "U+055C"   \* ARMENIAN EXCLAMATION MARK
MyGen     == "U+104F"   \* MYANMAR SYMBOL GENITIVE
LAQuo     == "U+00AB"   \* LEFT-POINTING DOUBLE ANGLE QUOTATION MARK
RAQuo     == "U+00BB"   \* RIGHT-POINTING DOUBLE ANGLE QUOTATION MARK
FwLParen  == "U+FF08"   \* FULLWIDTH LEFT PARENTHESIS
FwRParen  == "U+FF09"   \* FULLWIDTH RIGHT PARENTHESIS
AUml      == "U+00E4"   \* a with diaeresis
AUmlUp    == "U+00C4"
AAcute    == "U+00E1"
AAcuteUp  == "U+00C1"
UAcute    == "U+00FA"
UAcuteUp  == "U+00DA"
OAcute    == "U+00F3"
OAcuteUp  == "U+00D3"
IAcute    == "U+00ED"
IAcuteUp  == "U+00CD"
NL        == "\n"
SP        == " "
DQuote    == "\""
BSlash    == "\\"

AsciiLowerSeq ==
    <<"a", "b", "c", "d", "e", "f", "g", "h", "i", "j", "k", "l", "m",
      "n", "o", "p", "q", "r", "s", "t", "u", "v", "w", "x", "y", "z">>
AsciiUpperSeq ==
    <<"A", "B", "C", "D", "E", "F", "G", "H", "I", "J", "K", "L", "M",
      "N", "O", "P", "Q", "R", "S", "T", "U", "V", "W", "X", "Y", "Z">>
LowerLetters ==
    AsciiLowerSeq \o <<CyrYa, AUml, AAcute, UAcute, OAcute, IAcute>>
UpperLetters ==
    AsciiUpperSeq \o <<CyrYaUp, AUmlUp, AAcuteUp, UAcuteUp, OAcuteUp, IAcuteUp>>

AsciiLower == {AsciiLowerSeq[i] : i \in 1..Len(AsciiLowerSeq)}
AsciiUpper == {AsciiUpperSeq[i] : i \in 1..Len(AsciiUpperSeq)}
AsciiDigit == {"0", "1", "2", "3", "4", "5", "6", "7", "8", "9"}
Letters == {LowerLetters[i] : i \in 1..Len(LowerLetters)}
               \cup {UpperLetters[i] : i \in 1..Len(UpperLetters)}

\* The UTF-8 length of a character.
Utf8Len(c) ==
    IF c \in {IdeoStop, MyGen, FwLParen, FwRParen} THEN 3
    ELSE IF c \in {CombAcute, CyrYa, CyrYaUp, ArmStop, ArmExcl, LAQuo, RAQuo,
                   AUml, AUmlUp, AAcute, AAcuteUp, UAcute, UAcuteUp,
                   OAcute, OAcuteUp, IAcute, IAcuteUp} THEN 2
    ELSE 1

\* char::to_lowercase / char::to_uppercase on the characters of the model.
ToLowerChar(c) ==
    IF \E i \in 1..Len(UpperLetters) : UpperLetters[i] = c
    THEN LowerLetters[CHOOSE i \in 1..Len(UpperLetters) : UpperLetters[i] = c]
    ELSE c
ToUpperChar(c) ==
    IF \E i \in 1..Len(LowerLetters) : LowerLetters[i] = c
    THEN UpperLetters[CHOOSE i \in 1..Len(LowerLetters) : LowerLetters[i] = c]
    ELSE c
ToLower(s) == [i \in 1..Len(s) |-> ToLowerChar(s[i])]
ToUpper(s) == [i \in 1..Len(s) |-> ToUpperChar(s[i])]

\* The regex classes \w, \s and \d on the characters of the model.
IsWordChar(c) == c \in Letters \cup AsciiDigit \cup {CombAcute, "_"}
IsSpace(c)    == c \in {SP, NL}
IsDigit(c)    == c \in AsciiDigit
\* Grapheme_Extend: the character joins the grapheme cluster before it.
IsExtend(c)   == c = CombAcute

(***************************************************************************)
(* Byte offsets and slices of a text.                                      *)
(***************************************************************************)
RECURSIVE ByteLen(_)
ByteLen(s) == IF s = <<>> THEN 0 ELSE Utf8Len(Head(s)) + ByteLen(Tail(s))

\* The byte offset at which the i-th character starts (i = Len(s)+1: the end).
OffsetOf(s, i) == ByteLen(SubSeq(s, 1, i - 1))
IsCharBoundary(s, o) == \E i \in 1..(Len(s) + 1) : OffsetOf(s, i) = o
CharIndex(s, o) == CHOOSE i \in 1..(Len(s) + 1) : OffsetOf(s, i) = o
\* &s[a..b] is defined when a <= b <= s.len() and both are char boundaries;
\* otherwise the slice panics.
SliceOk(s, a, b) == a <= b /\ IsCharBoundary(s, a) /\ IsCharBoundary(s, b)
Slice(s, a, b) == SubSeq(s, CharIndex(s, a), CharIndex(s, b) - 1)

StartsWith(s, p) == Len(p) <= Len(s) /\ SubSeq(s, 1, Len(p)) = p
EndsWith(s, p) ==
    Len(p) <= Len(s) /\ SubSeq(s, Len(s) - Len(p) + 1, Len(s)) = p

RECURSIVE Concat(_)
Concat(ss) == IF ss = <<>> THEN <<>> ELSE Head(ss) \o Concat(Tail(ss))


(***************************************************************************)
(* Static tables.                                                          *)
(***************************************************************************)
\* Option::None for an offset (offsets are >= 0).
NONE == -1

\* languages.rs, SUPPORTED_LANGUAGES: the language codes of the registry.
SUPPORTED_LANGUAGES ==
    {"am", "ar", "bg", "bn", "ca", "en", "el", "da", "de", "es", "fi", "fr",
     "gu", "hi", "hy", "it", "kk", "kn", "ml", "mr", "my", "nl", "or", "pa",
     "sk", "pl", "pt", "ru", "ta", "te"}
LANGUAGE_REGISTRY == SUPPORTED_LANGUAGES

DE_MONTHS ==
    {<<"J", "a", "n", "u", "a", "r">>,
     <<"F", "e", "b", "r", "u", "a", "r">>,
     <<"M", AUml, "r", "z">>,
     <<"A", "p", "r", "i", "l">>,
     <<"M", "a", "i">>,
     <<"J", "u", "n", "i">>,
     <<"J", "u", "l", "i">>,
     <<"A", "u", "g", "u", "s", "t">>,
     <<"S", "e", "p", "t", "e", "m", "b", "e", "r">>,
     <<"O", "k", "t", "o", "b", "e", "r">>,
     <<"N", "o", "v", "e", "m", "b", "e", "r">>,
     <<"D", "e", "z", "e", "m", "b", "e", "r">>}
FI_MONTHS ==
    {<<"t", "a", "m", "m", "i", "k", "u", "u">>,
     <<"h", "e", "l", "m", "i", "k", "u", "u">>,
     <<"m", "a", "a", "l", "i", "s", "k", "u", "u">>,
     <<"h", "u", "h", "t", "i", "k", "u", "u">>,
     <<"t", "o", "u", "k", "o", "k", "u", "u">>,
     <<"k", "e", "s", AUml, "k", "u", "u">>,
     <<"h", "e", "i", "n", AUml, "k", "u", "u">>,
     <<"e", "l", "o", "k", "u", "u">>,
     <<"s", "y", "y", "s", "k", "u", "u">>,
     <<"l", "o", "k", "a", "k", "u", "u">>,
     <<"m", "a", "r", "r", "a", "s", "k", "u", "u">>,
     <<"j", "o", "u", "l", "u", "k", "u", "u">>}
SK_MONTHS ==
    {<<"J", "a", "n", "u", AAcute, "r">>,
     <<"F", "e", "b", "r", "u", AAcute, "r">>,
     <<"M", "a", "r", "e", "c">>,
     <<"A", "p", "r", IAcute, "l">>,
     <<"M", AAcute, "j">>,
     <<"J", UAcute, "n">>,
     <<"J", UAcute, "l">>,
     <<"A", "u", "g", "u", "s", "t">>,
     <<"S", "e", "p", "t", "e", "m", "b", "e", "r">>,
     <<"O", "k", "t", OAcute, "b", "e", "r">>,
     <<"N", "o", "v", "e", "m", "b", "e", "r">>,
     <<"D", "e", "c", "e", "m", "b", "e", "r">>,
     <<"J", "a", "n", "u", AAcute, "r", "a">>,
     <<"F", "e", "b", "r", "u", AAcute, "r", "a">>,
     <<"M", "a", "r", "c", "a">>,
     <<"A", "p", "r", IAcute, "l", "a">>,
     <<"M", AAcute, "j", "a">>,
     <<"J", UAcute, "n", "a">>,
     <<"J", UAcute, "l", "a">>,
     <<"A", "u", "g", "u", "s", "t", "a">>,
     <<"S", "e", "p", "t", "e", "m", "b", "r", "a">>,
     <<"O", "k", "t", OAcute, "b", "r", "a">>,
     <<"N", "o", "v", "e", "m", "b", "r", "a">>,
     <<"D", "e", "c", "e", "m", "b", "r", "a">>}

\* constants.rs is not part of the sources at hand: the tables below follow
\* the specification's description of them (a global terminator set, quote
\* glyph pairs, per-language abbreviation data) on the characters of the model.
GLOBAL_SENTENCE_TERMINATORS == {".", "!", "?", IdeoStop}
QUOTE_PAIRS_ARRAY == <<<<DQuote, DQuote>>, <<LAQuo, RAQuo>>>>
\* LANGDATA[code].abbreviation_char
LangAbbreviationChar(code) == <<".">>
\* LANGDATA[code].abbreviations
LangAbbreviations(code) ==
    IF code = "en"
    THEN {<<"D", "r">>, <<"p", "H">>, <<"v", "s">>, <<"U", "K">>}
    ELSE IF code = "de" THEN {<<"D", "r">>}
    ELSE IF code = "it" THEN {<<"a", "r", "t">>}
    ELSE {}
\* LANGDATA[code].exclamation_words
LangExclamationWords(code) ==
    IF code = "en" THEN {<<"Y", "a", "h", "o", "o", "!">>} ELSE {}

(***************************************************************************)
(* Paragraphs, graphemes and the regular expressions of lib.rs.            *)
(***************************************************************************)
\* The number of consecutive characters of s from index i on that are in set.
RECURSIVE RunLen(_, _, _)
RunLen(s, i, set) ==
    IF i > Len(s) \/ s[i] \notin set THEN 0 ELSE 1 + RunLen(s, i + 1, set)

\* CONSECUTIVE_NEWLINES_REGEX.split(text): the pieces between the runs of two
\* or more newlines, the empty pieces at either end included.
RECURSIVE SplitFrom(_, _, _)
SplitFrom(s, st, i) ==
    IF i > Len(s) THEN <<SubSeq(s, st, Len(s))>>
    ELSE IF RunLen(s, i, {NL}) >= 2
         THEN <<SubSeq(s, st, i - 1)>>
                  \o SplitFrom(s, i + RunLen(s, i, {NL}), i + RunLen(s, i, {NL}))
         ELSE SplitFrom(s, st, i + 1)
SplitParagraphs(text) == SplitFrom(text, 1, 1)

\* paragraph.grapheme_indices(false), its keys sorted: the byte offset of
\* every grapheme cluster start.  A cluster is a character with the
\* Grapheme_Extend characters after it; a newline keeps none (GB4).
IsGraphemeStart(s, i) == i = 1 \/ ~IsExtend(s[i]) \/ s[i - 1] = NL
RECURSIVE GraphemeOffsetsFrom(_, _)
GraphemeOffsetsFrom(s, i) ==
    IF i > Len(s) THEN <<>>
    ELSE (IF IsGraphemeStart(s, i) THEN <<OffsetOf(s, i)>> ELSE <<>>)
             \o GraphemeOffsetsFrom(s, i + 1)
GraphemeOffsets(s) == GraphemeOffsetsFrom(s, 1)
\* grapheme_indices[&offset]: the cluster that starts at a grapheme offset.
RECURSIVE ClusterEnd(_, _)
ClusterEnd(s, i) ==
    IF i + 1 <= Len(s) /\ ~IsGraphemeStart(s, i + 1)
    THEN ClusterEnd(s, i + 1) ELSE i
GraphemeAt(s, o) == SubSeq(s, CharIndex(s, o), ClusterEnd(s, CharIndex(s, o)))

\* GraphemeCursor::next_grapheme: the first recorded offset above pos.
NextGrapheme(grapheme_offsets, pos) ==
    IF \E k \in 1..Len(grapheme_offsets) : grapheme_offsets[k] > pos
    THEN grapheme_offsets[CHOOSE k \in 1..Len(grapheme_offsets) :
             /\ grapheme_offsets[k] > pos
             /\ \A j \in 1..(k - 1) : ~(grapheme_offsets[j] > pos)]
    ELSE NONE

\* Language::sentence_break_regex: the characters of the terminator class.
SentenceBreakChars(lang) ==
    IF lang = "el" THEN GLOBAL_SENTENCE_TERMINATORS \cup {";"}
    ELSE IF lang = "hy"
         THEN (GLOBAL_SENTENCE_TERMINATORS \ {"."}) \cup {ArmStop, ArmExcl, ":"}
    ELSE IF lang = "my" THEN GLOBAL_SENTENCE_TERMINATORS \cup {MyGen}
    ELSE GLOBAL_SENTENCE_TERMINATORS
\* sentence_break_regex().find_iter(paragraph): the maximal terminator runs,
\* each as <<start, end>> in byte offsets.
RECURSIVE BreakMatchesFrom(_, _, _)
BreakMatchesFrom(lang, s, i) ==
    IF i > Len(s) THEN <<>>
    ELSE LET n == RunLen(s, i, SentenceBreakChars(lang))
         IN IF n = 0 THEN BreakMatchesFrom(lang, s, i + 1)
            ELSE <<<<OffsetOf(s, i), OffsetOf(s, i + n)>>>>
                     \o BreakMatchesFrom(lang, s, i + n)
BreakMatches(lang, s) == BreakMatchesFrom(lang, s, 1)

\* NUMBERED_REFERENCE_REGEX ^(\[\d+])+ : the number of characters of the
\* match at the start of s from index i on (0: no match).
RECURSIVE NumRefChars(_, _)
NumRefChars(s, i) ==
    LET d == RunLen(s, i + 1, AsciiDigit)
    IN IF i <= Len(s) /\ s[i] = "[" /\ d >= 1
          /\ i + 1 + d <= Len(s) /\ s[i + 1 + d] = "]"
       THEN d + 2 + NumRefChars(s, i + d + 2)
       ELSE 0
\* number_ref_match.end(): the byte length of the match (0: no match).
NumRefEnd(tail) == ByteLen(SubSeq(tail, 1, NumRefChars(tail, 1)))

\* WORD_SPLIT_REGEX.split(text).last(): what follows the last whitespace or
\* period of the text (empty when the text ends with one, or is empty).
RECURSIVE LastPiece(_)
LastPiece(s) ==
    IF s = <<>> \/ IsSpace(s[Len(s)]) \/ s[Len(s)] = "." THEN <<>>
    ELSE LastPiece(SubSeq(s, 1, Len(s) - 1)) \o <<s[Len(s)]>>
\* str::split("l'").last(): what follows the last occurrence of l'.
RECURSIVE AfterLastElision(_, _)
AfterLastElision(s, i) ==
    IF i < 1 THEN s
    ELSE IF s[i] = "l" /\ s[i + 1] = "'" THEN SubSeq(s, i + 2, Len(s))
    ELSE AfterLastElision(s, i - 1)
\* Language::get_lastword, with ItLanguage's override.
GetLastWord(lang, s) ==
    IF lang = "it"
    THEN AfterLastElision(LastPiece(s), Len(LastPiece(s)) - 1)
    ELSE LastPiece(s)
(***************************************************************************)
(* The hooks of the Language trait and the overrides of languages.rs.      *)
(***************************************************************************)
\* The lowercase Cyrillic letters of the class [а-я].
CyrLower == {CyrYa}

\* The regexes ^\W*[0-9a-z] and ^\W*[0-9a-zа-я]: the first word character
\* of the text exists and is in the class.
RECURSIVE NonWordRun(_, _)
NonWordRun(s, i) ==
    IF i > Len(s) \/ IsWordChar(s[i]) THEN 0 ELSE 1 + NonWordRun(s, i + 1)
FirstWordCharIn(s, class) ==
    NonWordRun(s, 1) + 1 <= Len(s) /\ s[NonWordRun(s, 1) + 1] \in class
RU_CNW(s) == s # <<>> /\ s[1] \in AsciiDigit \cup AsciiLower \cup CyrLower
CNW_REGEX(s) == FirstWordCharIn(s, AsciiDigit \cup AsciiLower)
KK_CNW_REGEX(s) == FirstWordCharIn(s, AsciiDigit \cup AsciiLower \cup CyrLower)

\* str::trim: the text without its leading and trailing whitespace.
RECURSIVE TrimStart(_)
TrimStart(s) == IF s # <<>> /\ IsSpace(Head(s)) THEN TrimStart(Tail(s)) ELSE s
RECURSIVE TrimEnd(_)
TrimEnd(s) ==
    IF s # <<>> /\ IsSpace(s[Len(s)]) THEN TrimEnd(SubSeq(s, 1, Len(s) - 1))
    ELSE s
Trim(s) == TrimEnd(TrimStart(s))

\* split_word_bounds().next() (UAX #29) on a text that starts with no
\* whitespace: the last index of its first word segment.  kind is "L" after
\* a letter, "N" after a digit, "X" after an underscore, "O" otherwise.
\* ALetters: Word_Break=ALetter, which holds the letters and U+055C;
\* MidLetterLike: MidLetter, MidNumLet and Single_Quote; MidNumLike: MidNum
\* (with U+0589), MidNumLet and Single_Quote.
ALetters      == Letters \cup {ArmExcl}
MidLetterLike == {".", "'", ":"}
MidNumLike    == {".", "'", ";", ",", ArmStop}
RECURSIVE SkipExtend(_, _)
SkipExtend(s, i) ==
    IF i <= Len(s) /\ IsExtend(s[i]) THEN SkipExtend(s, i + 1) ELSE i
RECURSIVE WordSegEnd(_, _, _)
WordSegEnd(s, j, kind) ==
    IF j > Len(s) THEN Len(s)
    ELSE IF IsExtend(s[j]) THEN WordSegEnd(s, j + 1, kind)
    ELSE IF kind = "O" THEN j - 1
    ELSE IF s[j] \in ALetters THEN WordSegEnd(s, j + 1, "L")
    ELSE IF s[j] \in AsciiDigit THEN WordSegEnd(s, j + 1, "N")
    ELSE IF s[j] = "_" THEN WordSegEnd(s, j + 1, "X")
    ELSE LET n == SkipExtend(s, j + 1)
         IN IF kind = "L" /\ s[j] \in MidLetterLike
               /\ n <= Len(s) /\ s[n] \in ALetters
            THEN WordSegEnd(s, n + 1, "L")
            ELSE IF kind = "N" /\ s[j] \in MidNumLike
                    /\ n <= Len(s) /\ s[n] \in AsciiDigit
            THEN WordSegEnd(s, n + 1, "N")
            ELSE j - 1
CharKind(c) ==
    IF c \in ALetters THEN "L" ELSE IF c \in AsciiDigit THEN "N"
    ELSE IF c = "_" THEN "X" ELSE "O"
FirstWord(s) == SubSeq(s, 1, WordSegEnd(s, 2, CharKind(s[1])))

\* to_title_case: the first grapheme uppercased, the rest as it is.
ToTitleCase(s) ==
    IF s = <<>> THEN <<>>
    ELSE ToUpper(SubSeq(s, 1, ClusterEnd(s, 1)))
             \o SubSeq(s, ClusterEnd(s, 1) + 1, Len(s))

\* The month test of DeLanguage, FiLanguage and SkLanguage: the first word of
\* the trimmed text, with the literal ?!. stripped, is a month name as it
\* is or title-cased.
TermRun == <<"?", "!", ".">>
StripWord(word) ==
    LET w1 == IF StartsWith(word, TermRun)
              THEN SubSeq(word, Len(TermRun) + 1, Len(word)) ELSE word
    IN IF EndsWith(w1, TermRun)
       THEN SubSeq(w1, 1, Len(w1) - Len(TermRun)) ELSE word
MonthFollows(months, s) ==
    /\ Trim(s) # <<>>
    /\ LET word == StripWord(FirstWord(Trim(s)))
       IN /\ word # <<>>
          /\ (word \in months \/ ToTitleCase(word) \in months)

\* continue_in_next_word with DaLanguage on the Cyrillic class of
\* KkLanguage: C13 does not hold of it.
ContinueInNextWordDaCyrillic(lang, text_after_boundary) ==
    IF lang = "ru" THEN RU_CNW(text_after_boundary)
    ELSE IF lang \in {"da", "kk"} THEN KK_CNW_REGEX(text_after_boundary)
    ELSE IF lang = "de"
         THEN CNW_REGEX(text_after_boundary)
                  \/ MonthFollows(DE_MONTHS, text_after_boundary)
    ELSE IF lang = "fi"
         THEN CNW_REGEX(text_after_boundary)
                  \/ MonthFollows(FI_MONTHS, text_after_boundary)
    ELSE IF lang = "sk"
         THEN CNW_REGEX(text_after_boundary)
                  \/ MonthFollows(SK_MONTHS, text_after_boundary)
    ELSE /\ text_after_boundary # <<>>
         /\ text_after_boundary[1] \in AsciiLower \cup AsciiDigit

\* Language::continue_in_next_word and its overrides.
ContinueInNextWord(lang, text_after_boundary) ==
    IF lang = "ru" THEN RU_CNW(text_after_boundary)
    ELSE IF lang = "da" THEN CNW_REGEX(text_after_boundary)
    ELSE IF lang = "kk" THEN KK_CNW_REGEX(text_after_boundary)
    ELSE IF lang = "de"
         THEN CNW_REGEX(text_after_boundary)
                  \/ MonthFollows(DE_MONTHS, text_after_boundary)
    ELSE IF lang = "fi"
         THEN CNW_REGEX(text_after_boundary)
                  \/ MonthFollows(FI_MONTHS, text_after_boundary)
    ELSE IF lang = "sk"
         THEN CNW_REGEX(text_after_boundary)
                  \/ MonthFollows(SK_MONTHS, text_after_boundary)
    ELSE /\ text_after_boundary # <<>>
         /\ text_after_boundary[1] \in AsciiLower \cup AsciiDigit

\* Language::is_punctuation_between_quotes: true for DeLanguage alone.
IsPunctuationBetweenQuotes(lang) == lang = "de"

\* The first grapheme of the word lowercased, the rest as it is.
FirstLowered(word) ==
    ToLower(SubSeq(word, 1, ClusterEnd(word, 1)))
        \o SubSeq(word, ClusterEnd(word, 1) + 1, Len(word))

\* is_abbreviation without the fully-uppercased alternative: C9 does not
\* hold of it.
IsAbbreviationNoUpper(lang, head, separator) ==
    IF LangAbbreviationChar(lang) # separator THEN FALSE
    ELSE LET last_word == GetLastWord(lang, head)
         IN IF last_word = <<>> THEN FALSE
            ELSE \/ last_word \in LangAbbreviations(lang)
                 \/ FirstLowered(last_word) \in LangAbbreviations(lang)
                 \/ ToLower(last_word) \in LangAbbreviations(lang)

\* Language::is_abbreviation.
IsAbbreviation(lang, head, separator) ==
    IF LangAbbreviationChar(lang) # separator THEN FALSE
    ELSE LET last_word == GetLastWord(lang, head)
         IN IF last_word = <<>> THEN FALSE
            ELSE \/ last_word \in LangAbbreviations(lang)
                 \/ FirstLowered(last_word) \in LangAbbreviations(lang)
                 \/ ToLower(last_word) \in LangAbbreviations(lang)
                 \/ ToUpper(last_word) \in LangAbbreviations(lang)

\* Language::is_exclamation_word.
IsExclamationWord(lang, head) ==
    (GetLastWord(lang, head) \o <<"!">>) \in LangExclamationWords(lang)


(***************************************************************************)
(* Skip ranges: quoted spans, e-mail addresses, parenthetical spans.       *)
(***************************************************************************)
\* The least element of a non-empty set of integers.
Least(S) == CHOOSE x \in S : \A y \in S : x <= y

\* QUOTE_PAIRS_REGEX, left(\n|.)*?right for each pair, the pairs tried in
\* order: the matches of find_iter as <<start, end>> byte offsets.
QuoteAlternatives(s, i) ==
    {k \in 1..Len(QUOTE_PAIRS_ARRAY) :
        /\ s[i] = QUOTE_PAIRS_ARRAY[k][1]
        /\ \E j \in (i + 1)..Len(s) : s[j] = QUOTE_PAIRS_ARRAY[k][2]}
RECURSIVE QuoteMatchesFrom(_, _)
QuoteMatchesFrom(s, i) ==
    IF i > Len(s) THEN <<>>
    ELSE IF QuoteAlternatives(s, i) = {} THEN QuoteMatchesFrom(s, i + 1)
    ELSE LET k == Least(QuoteAlternatives(s, i))
             j == Least({x \in (i + 1)..Len(s) : s[x] = QUOTE_PAIRS_ARRAY[k][2]})
         IN <<<<OffsetOf(s, i), OffsetOf(s, j + 1)>>>> \o QuoteMatchesFrom(s, j + 1)

\* EMAIL_REGEX [A-Za-z0-9._%+-]+@[A-Za-z0-9.-]+\.[A-Z|a-z]{2,7}
EmailLocal  == AsciiLower \cup AsciiUpper \cup AsciiDigit
                   \cup {".", "_", "%", "+", "-"}
EmailDomain == AsciiLower \cup AsciiUpper \cup AsciiDigit \cup {".", "-"}
EmailTld    == AsciiLower \cup AsciiUpper \cup {"|"}
EmailTldMin == 2
EmailTldMax == 7
\* The lengths m of a domain from index a on that a dot and a top-level
\* segment follow.
EmailDomainLens(s, a) ==
    {m \in 1..RunLen(s, a, EmailDomain) :
        /\ a + m <= Len(s) /\ s[a + m] = "."
        /\ RunLen(s, a + m + 1, EmailTld) >= EmailTldMin}
\* The index after the match that starts at i (0: no match starts there):
\* every quantifier is greedy.
EmailEndAt(s, i) ==
    LET n == RunLen(s, i, EmailLocal)
        a == i + n + 1
    IN IF n >= 1 /\ i + n <= Len(s) /\ s[i + n] = "@"
          /\ EmailDomainLens(s, a) # {}
       THEN LET m == -Least({-x : x \in EmailDomainLens(s, a)})
                t == RunLen(s, a + m + 1, EmailTld)
            IN a + m + 1 + (IF t > EmailTldMax THEN EmailTldMax ELSE t)
       ELSE 0
RECURSIVE EmailMatchesFrom(_, _)
EmailMatchesFrom(s, i) ==
    IF i > Len(s) THEN <<>>
    ELSE IF EmailEndAt(s, i) = 0 THEN EmailMatchesFrom(s, i + 1)
    ELSE <<<<OffsetOf(s, i), OffsetOf(s, EmailEndAt(s, i))>>>>
             \o EmailMatchesFrom(s, EmailEndAt(s, i))

\* PARENS_REGEX ([\(（<{\[])(?:\\\1|.)*?[\)\]}）] : from an opener to the
\* first closer after it, with no newline between them.
ParenOpeners == {"(", FwLParen, "<", "{", "["}
ParenClosers == {")", "]", "}", FwRParen}
ParenEndAt(s, i) ==
    IF s[i] \in ParenOpeners /\ \E j \in (i + 1)..Len(s) : s[j] \in ParenClosers
    THEN LET j == Least({x \in (i + 1)..Len(s) : s[x] \in ParenClosers})
         IN IF \A x \in (i + 1)..(j - 1) : s[x] # NL THEN j + 1 ELSE 0
    ELSE 0
\* fancy_regex runs PARENS_REGEX on a backtracking machine, behind the lazy
\* prefix (?s:.)*? that moves the start, and gives up a search with an error
\* once it has backtracked more than its limit allows (the default limit).
BacktrackLimit == 1000000
\* Where the lazy repeat stops running over plain characters.
ParenStops(s, x) == x > Len(s) \/ s[x] \in ParenClosers \cup {NL, BSlash}
\* The lazy repeat (?:\\\1|.)*? and the closer, from x, for the opener at i:
\* the backtracks made and the index after the closer (0: the attempt
\* fails).  Each character run over costs two backtracks (the closer, then
\* the literal backslash); a backslash with the opener after it is taken as
\* a pair first and as a single character when the pair leads nowhere.
RECURSIVE ParenScan(_, _, _)
ParenScan(s, i, x) ==
    LET e == Least({y \in x..(Len(s) + 1) : ParenStops(s, y)})
        plain == 2 * (e - x)
    IN IF e <= Len(s) /\ s[e] \in ParenClosers
       THEN [n |-> plain, end |-> e + 1]
       ELSE IF e <= Len(s) /\ s[e] = BSlash
       THEN LET pair == e + 1 <= Len(s) /\ s[e + 1] = s[i]
                first == IF pair THEN ParenScan(s, i, e + 2)
                         ELSE [n |-> 0, end |-> 0]
            IN IF first.end # 0
               THEN [n |-> plain + 1 + first.n, end |-> first.end]
               ELSE LET rest == ParenScan(s, i, e + 1)
                    IN [n |-> plain + 1 + first.n + 1 + rest.n,
                        end |-> rest.end]
       ELSE [n |-> plain + 2, end |-> 0]
\* The backtracks of the attempt that starts at i: one when no opener is
\* there, and one more than the scan's when the scan fails.
ParenBacktracks(s, i) ==
    IF s[i] \notin ParenOpeners THEN 1
    ELSE LET r == ParenScan(s, i, i + 1)
         IN IF r.end # 0 THEN r.n ELSE r.n + 1
\* PARENS_REGEX.find from the character i, n backtracks made so far: the
\* match, none, or the error of the backtrack limit.
ParenNone == [start |-> 0, end |-> 0, err |-> FALSE]
ParenErr  == [start |-> 0, end |-> 0, err |-> TRUE]
RECURSIVE ParenFind(_, _, _)
ParenFind(s, i, n) ==
    IF n > BacktrackLimit THEN ParenErr
    ELSE IF i > Len(s)
    THEN IF n + 1 > BacktrackLimit THEN ParenErr ELSE ParenNone
    ELSE IF ParenEndAt(s, i) # 0
    THEN IF n + ParenBacktracks(s, i) > BacktrackLimit THEN ParenErr
         ELSE [start |-> i, end |-> ParenEndAt(s, i), err |-> FALSE]
    ELSE ParenFind(s, i + 1, n + ParenBacktracks(s, i))
\* PARENS_REGEX.find_iter(text).flatten(): the matches, and whether the
\* iteration ends.  After an error find_iter yields the same error again
\* without moving on and flatten drops it: the loop of line 163 never ends.
RECURSIVE ParenMatchesFrom(_, _)
ParenMatchesFrom(s, i) ==
    LET f == ParenFind(s, i, 0)
    IN IF f.err THEN [ranges |-> <<>>, ends |-> FALSE]
       ELSE IF f = ParenNone THEN [ranges |-> <<>>, ends |-> TRUE]
       ELSE LET rest == ParenMatchesFrom(s, f.end)
            IN [ranges |-> <<<<OffsetOf(s, f.start), OffsetOf(s, f.end)>>>>
                               \o rest.ranges,
                ends |-> rest.ends]

\* Language::get_skippable_ranges: quotes, then e-mails, then parentheses;
\* the call returns when the loop over the parentheses ends.
GetSkippableRanges(s) ==
    [ranges |-> QuoteMatchesFrom(s, 1) \o EmailMatchesFrom(s, 1)
                    \o ParenMatchesFrom(s, 1).ranges,
     returns |-> ParenMatchesFrom(s, 1).ends]

(***************************************************************************)
(* Language::find_boundary and the skip-range test of Language::segment.   *)
(***************************************************************************)
NoBoundary(why) ==
    [some |-> FALSE, boundary |-> NONE, is_num_ref |-> FALSE, why |-> why]
SomeBoundary(b, is_num_ref, why) ==
    [some |-> TRUE, boundary |-> b, is_num_ref |-> is_num_ref, why |-> why]

\* The offset find_boundary forces after a run of numbered references.
RefNumEnd(grapheme_offsets, match_end, number_ref_end) ==
    LET ref_num_end == match_end + number_ref_end
    IN IF NextGrapheme(grapheme_offsets, ref_num_end) = NONE
       THEN ref_num_end
       ELSE NextGrapheme(grapheme_offsets, ref_num_end)

\* Language::find_boundary for the match mtch = <<start, end>>.
FindBoundary(lang, text, grapheme_offsets, mtch) ==
    LET match_start == mtch[1]
        match_end == mtch[2]
        next_char_offset == NextGrapheme(grapheme_offsets, match_start)
    IN IF next_char_offset = NONE THEN NoBoundary("no_next_grapheme")
       ELSE LET tail == Slice(text, next_char_offset, ByteLen(text))
                head == Slice(text, 0, match_start)
            IN IF NumRefEnd(tail) > 0
               THEN SomeBoundary(
                        RefNumEnd(grapheme_offsets, match_end, NumRefEnd(tail)),
                        TRUE, "numbered_reference")
               ELSE IF ContinueInNextWord(lang, tail)
               THEN NoBoundary("continue_in_next_word")
               ELSE IF IsAbbreviation(lang, head, GraphemeAt(text, match_start))
               THEN NoBoundary("abbreviation")
               ELSE IF IsExclamationWord(lang, head)
               THEN NoBoundary("exclamation_word")
               ELSE SomeBoundary(match_end, FALSE, "accepted")

\* The indices of the skip ranges that strictly contain the boundary.
Containing(ranges, boundary) ==
    {r \in 1..Len(ranges) : boundary > ranges[r][1] /\ boundary < ranges[r][2]}

\* The 'skip_ranges loop without its break on the first containing range:
\* any containing range that ends at the next grapheme snaps the boundary.
\* C8 does not hold of it.
ResolveInAnyRange(lang, grapheme_offsets, ranges, boundary) ==
    IF Containing(ranges, boundary) = {}
    THEN [keep |-> TRUE, boundary |-> boundary]
    ELSE LET next_grapheme ==
                 IF NextGrapheme(grapheme_offsets, boundary) = NONE
                 THEN boundary
                 ELSE NextGrapheme(grapheme_offsets, boundary)
             snaps == {r \in Containing(ranges, boundary) :
                          next_grapheme = ranges[r][2]}
         IN IF snaps # {} /\ IsPunctuationBetweenQuotes(lang)
            THEN [keep |-> TRUE, boundary |-> ranges[Least(snaps)][2]]
            ELSE [keep |-> FALSE, boundary |-> boundary]

\* The 'skip_ranges loop of Language::segment for a boundary that is no
\* numbered reference: the first containing range decides.
ResolveInRanges(lang, grapheme_offsets, ranges, boundary) ==
    IF Containing(ranges, boundary) = {}
    THEN [keep |-> TRUE, boundary |-> boundary]
    ELSE LET q == ranges[Least(Containing(ranges, boundary))]
             next_grapheme ==
                 IF NextGrapheme(grapheme_offsets, boundary) = NONE
                 THEN boundary
                 ELSE NextGrapheme(grapheme_offsets, boundary)
         IN IF next_grapheme = q[2] /\ IsPunctuationBetweenQuotes(lang)
            THEN [keep |-> TRUE, boundary |-> q[2]]
            ELSE [keep |-> FALSE, boundary |-> boundary]

\* One turn of the loop over the terminator matches: the boundaries after
\* the match has been handled.
ScanStep(lang, text, grapheme_offsets, ranges, boundaries, mtch) ==
    LET found == FindBoundary(lang, text, grapheme_offsets, mtch)
    IN IF ~found.some THEN boundaries
       ELSE IF found.is_num_ref THEN Append(boundaries, found.boundary)
       ELSE LET r == ResolveInRanges(lang, grapheme_offsets, ranges,
                                     found.boundary)
            IN IF r.keep THEN Append(boundaries, r.boundary) ELSE boundaries

\* str::trim_matches(' ').
RECURSIVE TrimSpaces(_)
TrimSpaces(s) ==
    IF s # <<>> /\ Head(s) = SP THEN TrimSpaces(Tail(s))
    ELSE IF s # <<>> /\ s[Len(s)] = SP THEN TrimSpaces(SubSeq(s, 1, Len(s) - 1))
    ELSE s

\* The pairs (i, j) of the slicing loop: consecutive boundaries, then the
\* last boundary with the paragraph length.
SlicePairs(boundaries, len) ==
    [k \in 1..Len(boundaries) |->
        <<boundaries[k],
          IF k < Len(boundaries) THEN boundaries[k + 1] ELSE len>>]

\* The slicing loop panics at the first pair that is no valid slice.
SlicesPanic(text, boundaries) ==
    \E k \in 1..Len(boundaries) :
        LET pr == SlicePairs(boundaries, ByteLen(text))[k]
        IN ~SliceOk(text, pr[1], pr[2])

\* The slicing loop without its test for an empty slice: C10 does not hold
\* of it.
RECURSIVE SentencesFromUntested(_, _, _)
SentencesFromUntested(text, pairs, k) ==
    IF k > Len(pairs) THEN <<>>
    ELSE <<TrimSpaces(Slice(text, pairs[k][1], pairs[k][2]))>>
             \o SentencesFromUntested(text, pairs, k + 1)

\* The sentences the slicing loop pushes for the pairs from the k-th on.
RECURSIVE SentencesFrom(_, _, _)
SentencesFrom(text, pairs, k) ==
    IF k > Len(pairs) THEN <<>>
    ELSE LET sentence == Slice(text, pairs[k][1], pairs[k][2])
         IN (IF sentence # <<>> THEN <<TrimSpaces(sentence)>> ELSE <<>>)
                \o SentencesFrom(text, pairs, k + 1)


(***************************************************************************)
(* The fallback table.  constants.rs (LANGUAGE_FALLBACKS and               *)
(* DEFAULT_FALLBACK_LANGUAGE) is not part of the sources at hand, so the   *)
(* table is an input of the model: one of a few configurations of the      *)
(* shape the specification describes (a map from an identifier to an       *)
(* ordered list of identifiers, and one default list).                     *)
(***************************************************************************)
Configurations == {"plain", "chains", "cyclic", "default_loop"}

\* LANGUAGE_FALLBACKS.get(code): the configured list, <<"-">> when there is
\* none ("-" is no language code).
Unconfigured == <<"-">>
LANGUAGE_FALLBACKS(cfg, code) ==
    IF cfg = "plain" THEN
        (IF code = "zh" THEN <<"en">> ELSE Unconfigured)
    ELSE IF cfg = "chains" THEN
        (IF code = "zh" THEN <<"yy", "en">>
         ELSE IF code = "aa" THEN <<"bb", "cc">>
         ELSE IF code = "bb" THEN <<"dd">>
         ELSE IF code = "cc" THEN <<"dd">>
         ELSE IF code = "ee" THEN <<"ff">>
         ELSE IF code = "ff" THEN <<"gg">>
         ELSE IF code = "gg" THEN <<"de">>
         ELSE Unconfigured)
    ELSE IF cfg = "cyclic" THEN
        (IF code = "aa" THEN <<"bb">>
         ELSE IF code = "bb" THEN <<"aa">>
         ELSE Unconfigured)
    ELSE Unconfigured
DEFAULT_FALLBACK_LANGUAGE(cfg) ==
    IF cfg = "plain" \/ cfg = "cyclic" THEN <<"en">>
    ELSE IF cfg = "default_loop" THEN <<"xx">>
    ELSE <<>>

\* The identifiers the model resolves.
UnregisteredCodes == {"zh", "aa", "bb", "cc", "dd", "ee", "ff", "gg", "xx", "yy"}
AllCodes == SUPPORTED_LANGUAGES \cup UnregisteredCodes

\* The fallbacks without the default list: C4 does not hold of it.
FallbacksNoDefault(cfg, code) ==
    IF LANGUAGE_FALLBACKS(cfg, code) = Unconfigured THEN <<>>
    ELSE LANGUAGE_FALLBACKS(cfg, code)

\* get_language, lines 59-62: the fallbacks of a code the registry misses.
Fallbacks(cfg, code) ==
    IF LANGUAGE_FALLBACKS(cfg, code) = Unconfigured
    THEN DEFAULT_FALLBACK_LANGUAGE(cfg)
    ELSE LANGUAGE_FALLBACKS(cfg, code)

\* get_language, line 57: LANGUAGE_REGISTRY.get(code).
RegistryHas(code) == code \in LANGUAGE_REGISTRY

(***************************************************************************)
(* The inputs: a language code and a text.  The texts are the              *)
(* concatenations of at most MaxPieces pieces of a vocabulary; each        *)
(* vocabulary goes with the languages whose rules it exercises.            *)
(***************************************************************************)
RECURSIVE TextsOf(_, _)
TextsOf(pieces, n) ==
    IF n = 0 THEN {<<>>}
    ELSE {p \o t : p \in pieces \cup {<<>>}, t \in TextsOf(pieces, n - 1)}

WHi     == <<"H", "i">>
WOk     == <<"o", "k">>
WDr     == <<"D", "r">>
WAt     == <<"a", "@", "b", ".", "C", "O">>
WRef    == <<"[", "1", "]">>
Dot     == <<".">>

RefPieces   == {WHi, Dot, <<".", CombAcute>>, WRef, Dot \o WRef, <<SP>>}
AbbrPieces  == {WDr, <<"d", "r">>, <<"P", "H">>, <<"V", "S">>, <<"u", "k">>,
                WHi, Dot, <<"!">>, <<SP>>}
ItPieces    == {<<"l", "'">>, <<"a", "r", "t">>, WHi, Dot, <<SP>>}
SkipPieces  == {<<"(">>, <<")">>, <<".", ")">>, <<DQuote>>, <<".", DQuote>>,
                <<DQuote, "(">>, Dot, WHi, <<SP>>, WAt}
ParaPieces  == {WHi, Dot, <<SP>>, <<NL>>, <<NL, NL>>}
CnwPieces   == {WHi, WOk, <<"7">>, <<CyrYa>>, Dot, <<SP>>}
MonthPieces == {<<"3">>, Dot, <<SP>>, <<"M", "a", "i">>,
                <<"M", "a", "r", "c", "a">>, WHi}
ExclPieces  == {<<"Y", "a", "h", "o", "o">>, <<"!">>, Dot, <<SP>>, WHi}
TermPieces  == {WHi, Dot, <<":">>, <<";">>, <<MyGen>>, <<IdeoStop>>, <<SP>>}

\* A family of inputs: every configuration, code and text of the three sets.
Family(cfgs, codes, texts) == [cfgs |-> cfgs, codes |-> codes, texts |-> texts]

SegmentInputs ==
    {
        Family({"plain"}, {"en"}, TextsOf(RefPieces, MaxPieces)),
        Family({"plain"}, {"en"}, TextsOf(AbbrPieces, MaxPieces)),
        Family({"plain"}, {"it"}, TextsOf(ItPieces, MaxPieces)),
        Family({"plain"}, {"en", "de"}, TextsOf(SkipPieces, MaxPieces)),
        Family({"plain"}, {"en"}, TextsOf(ParaPieces, MaxPieces)),
        Family({"plain"}, {"en", "ru", "da", "kk"}, TextsOf(CnwPieces, MaxPieces)),
        Family({"plain"}, {"de", "fi", "sk"}, TextsOf(MonthPieces, MaxPieces)),
        Family({"plain"}, {"en"}, TextsOf(ExclPieces, MaxPieces)),
        Family({"plain"}, {"en", "el", "hy", "my"}, TextsOf(TermPieces, MaxPieces)),
        Family({"plain"}, AllCodes, {<<>>})}
ResolveInputs ==
    {Family(Configurations, AllCodes,
            {<<>>, WHi \o Dot \o <<SP>> \o WHi \o Dot \o WRef \o <<SP>>})}
Inputs == SegmentInputs \cup ResolveInputs

(***************************************************************************)
(* The state.                                                              *)
(***************************************************************************)
VARIABLES
    cfg,               \* the fallback table in force
    lang_code,         \* segment's lang_code
    text,              \* segment's text
    pc,                \* where the call is
    stack,             \* the frames of get_language: [code, i], i the
                       \* fallback the frame tries next (0: before the lookup)
    ret,               \* the value a get_language call has just returned
    visits,            \* how many times get_language was entered per code
    language,          \* the language segment resolved
    error,             \* the error segment returns
    paragraphs,        \* the paragraphs of the text
    pi,                \* the index of the paragraph at hand
    paragraph,         \* the paragraph at hand
    grapheme_offsets,  \* cursor.grapheme_offsets
    skippable_ranges,  \* skippable_ranges
    matches,           \* the terminator matches of the paragraph
    k,                 \* the index of the match the scan handles next
    boundaries,        \* boundaries
    num_refs,          \* for each boundary, whether find_boundary forced it
    last,              \* the match handled last and what find_boundary said
    sentences          \* sentences

vars == <<cfg, lang_code, text, pc, stack, ret, visits, language, error,
          paragraphs, pi, paragraph, grapheme_offsets, skippable_ranges,
          matches, k, boundaries, num_refs, last, sentences>>

inputVars == <<cfg, lang_code, text>>
resolveVars == <<stack, ret, visits>>
paragraphVars == <<paragraph, grapheme_offsets, skippable_ranges, matches>>
scanVars == <<k, boundaries, num_refs, last>>

Pending == "pending"          \* no return value in flight
NoLanguage == "None"          \* Option::None of get_language
ParagraphBreak == <<NL, NL>>  \* the "\n\n" segment pushes between paragraphs
NoMatch == [mtch |-> <<>>, found |-> NoBoundary("nothing"), kept |-> FALSE]

InitWith(inputs) ==
    /\ \E family \in inputs :
        /\ cfg \in family.cfgs
        /\ lang_code \in family.codes
        /\ text \in family.texts
    /\ stack = <<[code |-> lang_code, i |-> 0]>>
    /\ pc = "resolve"
    /\ ret = Pending
    /\ visits = [c \in AllCodes |-> 0]
    /\ language = NoLanguage
    /\ error = <<>>
    /\ paragraphs = <<>>
    /\ pi = 0
    /\ paragraph = <<>>
    /\ grapheme_offsets = <<>>
    /\ skippable_ranges = <<>>
    /\ matches = <<>>
    /\ k = 0
    /\ boundaries = <<>>
    /\ num_refs = <<>>
    /\ last = NoMatch
    /\ sentences = <<>>

Init == InitWith(Inputs)

(***************************************************************************)
(* get_language, one frame of the stack per call.                          *)
(***************************************************************************)
Top == stack[Len(stack)]
Pop == SubSeq(stack, 1, Len(stack) - 1)
WithTop(i) == [stack EXCEPT ![Len(stack)].i = i]

\* Line 57: the registry lookup on entry.  A hit returns the language.
GLLookup ==
    /\ pc = "resolve" /\ stack # <<>> /\ ret = Pending /\ Top.i = 0
    /\ visits' = [visits EXCEPT ![Top.code] = @ + 1]
    /\ IF RegistryHas(Top.code)
       THEN stack' = Pop /\ ret' = Top.code
       ELSE stack' = WithTop(1) /\ ret' = ret
    /\ UNCHANGED <<inputVars, pc, language, error, paragraphs, pi,
                   paragraphVars, scanVars, sentences>>

\* The call of line 64 made on the identifier itself, not on the fallback:
\* C5 does not hold of it.
GLCallSelf ==
    /\ pc = "resolve" /\ stack # <<>> /\ ret = Pending
    /\ Top.i >= 1 /\ Top.i <= Len(Fallbacks(cfg, Top.code))
    /\ IF Len(stack) >= MaxDepth
       THEN pc' = "stack_overflow" /\ stack' = stack
       ELSE /\ pc' = pc
            /\ stack' = Append(stack, [code |-> Top.code, i |-> 0])
    /\ UNCHANGED <<inputVars, ret, visits, language, error, paragraphs, pi,
                   paragraphVars, scanVars, sentences>>

\* Line 64: the call on the next fallback; the stack is finite.
GLCall ==
    /\ pc = "resolve" /\ stack # <<>> /\ ret = Pending
    /\ Top.i >= 1 /\ Top.i <= Len(Fallbacks(cfg, Top.code))
    /\ IF Len(stack) >= MaxDepth
       THEN pc' = "stack_overflow" /\ stack' = stack
       ELSE /\ pc' = pc
            /\ stack' = Append(stack,
                   [code |-> Fallbacks(cfg, Top.code)[Top.i], i |-> 0])
    /\ UNCHANGED <<inputVars, ret, visits, language, error, paragraphs, pi,
                   paragraphVars, scanVars, sentences>>

\* Lines 63 and 70: the fallbacks are exhausted, the call returns None.
GLExhausted ==
    /\ pc = "resolve" /\ stack # <<>> /\ ret = Pending
    /\ Top.i > Len(Fallbacks(cfg, Top.code))
    /\ stack' = Pop
    /\ ret' = NoLanguage
    /\ UNCHANGED <<inputVars, pc, visits, language, error, paragraphs, pi,
                   paragraphVars, scanVars, sentences>>

\* Lines 64-67: the caller takes the value of the call: it breaks and
\* returns a language, or goes on to the next fallback.
GLResume ==
    /\ pc = "resolve" /\ stack # <<>> /\ ret # Pending
    /\ IF ret = NoLanguage
       THEN stack' = WithTop(Top.i + 1) /\ ret' = Pending
       ELSE stack' = Pop /\ ret' = ret
    /\ UNCHANGED <<inputVars, pc, visits, language, error, paragraphs, pi,
                   paragraphVars, scanVars, sentences>>

(***************************************************************************)
(* segment and Language::segment.                                          *)
(***************************************************************************)
\* segment, lines 49-53, and the paragraph split of Language::segment.
SegmentEntry ==
    /\ pc = "resolve" /\ stack = <<>> /\ ret # Pending
    /\ IF ret = NoLanguage
       THEN /\ error' = <<"Language not supported", lang_code>>
            /\ pc' = "failed"
            /\ UNCHANGED <<language, paragraphs, pi>>
       ELSE /\ language' = ret
            /\ paragraphs' = SplitParagraphs(text)
            /\ pi' = 1
            /\ pc' = "paragraph"
            /\ error' = error
    /\ UNCHANGED <<inputVars, resolveVars, paragraphVars, scanVars, sentences>>

\* Lines 172-184: the next paragraph, its grapheme index and skip ranges.
\* When get_skippable_ranges does not return, the call stays in it for
\* ever: no step leaves pc = "skippable_ranges".
NextParagraph ==
    /\ pc = "paragraph" /\ pi <= Len(paragraphs)
    /\ sentences' = IF sentences # <<>>
                    THEN Append(sentences, ParagraphBreak) ELSE sentences
    /\ paragraph' = paragraphs[pi]
    /\ grapheme_offsets' = GraphemeOffsets(paragraphs[pi])
    /\ boundaries' = <<0>>
    /\ num_refs' = <<FALSE>>
    /\ k' = 1
    /\ last' = NoMatch
    /\ IF GetSkippableRanges(paragraphs[pi]).returns
       THEN /\ skippable_ranges' = GetSkippableRanges(paragraphs[pi]).ranges
            /\ matches' = BreakMatches(language, paragraphs[pi])
            /\ pc' = "scan"
       ELSE /\ skippable_ranges' = <<>>
            /\ matches' = <<>>
            /\ pc' = "skippable_ranges"
    /\ UNCHANGED <<inputVars, resolveVars, language, error, paragraphs, pi>>

\* Lines 186-213: one terminator match.
ScanMatch ==
    /\ pc = "scan" /\ k <= Len(matches)
    /\ boundaries' = ScanStep(language, paragraph, grapheme_offsets,
                              skippable_ranges, boundaries, matches[k])
    /\ LET found == FindBoundary(language, paragraph, grapheme_offsets,
                                 matches[k])
       IN /\ last' = [mtch |-> matches[k], found |-> found,
                      kept |-> Len(boundaries') > Len(boundaries)]
          /\ num_refs' = IF Len(boundaries') > Len(boundaries)
                         THEN Append(num_refs, found.is_num_ref)
                         ELSE num_refs
    /\ k' = k + 1
    /\ UNCHANGED <<inputVars, resolveVars, pc, language, error, paragraphs,
                   pi, paragraphVars, sentences>>

\* Lines 215-225: the slices of the paragraph; a slice that is none panics.
SliceParagraph ==
    /\ pc = "scan" /\ k > Len(matches)
    /\ IF SlicesPanic(paragraph, boundaries)
       THEN pc' = "panic" /\ UNCHANGED <<sentences, pi>>
       ELSE /\ sentences' = sentences \o SentencesFrom(paragraph,
                                SlicePairs(boundaries, ByteLen(paragraph)), 1)
            /\ pi' = pi + 1
            /\ pc' = "paragraph"
    /\ UNCHANGED <<inputVars, resolveVars, language, error, paragraphs,
                   paragraphVars, scanVars>>

\* Line 228: the sentences are returned.
Finish ==
    /\ pc = "paragraph" /\ pi > Len(paragraphs)
    /\ pc' = "done"
    /\ UNCHANGED <<inputVars, resolveVars, language, error, paragraphs, pi,
                   paragraphVars, scanVars, sentences>>

Next ==
    \/ GLLookup
    \/ GLCall
    \/ GLExhausted
    \/ GLResume
    \/ SegmentEntry
    \/ NextParagraph
    \/ ScanMatch
    \/ SliceParagraph
    \/ Finish

Spec == Init /\ [][Next]_vars

\* The steps of segment up to the end of the resolution.
Resolution == GLLookup \/ GLCall \/ GLExhausted \/ GLResume \/ SegmentEntry
\* The same steps, those of the resolution always taken: the program is
\* sequential and runs each step it reaches.  The inputs are those of the
\* resolution.
FairSpec == InitWith(ResolveInputs) /\ [][Next]_vars /\ WF_vars(Resolution)

(***************************************************************************)
(* C1.  The resolved boundaries of a paragraph are strictly increasing.    *)
(***************************************************************************)
\* C1: each boundary Language::segment appends is strictly greater than
\* the one appended before it.
C1_StrictlyIncreasing ==
    \A j \in 1..(Len(boundaries) - 1) : boundaries[j] < boundaries[j + 1]

(***************************************************************************)
(* C2.  Every resolved boundary is the start of a grapheme cluster.        *)
(***************************************************************************)
\* C2: every boundary Language::segment appends is an offset of the
\* paragraph's grapheme index.  The end of the paragraph, which the index
\* does not hold, is let pass: what is refuted is a boundary inside a
\* cluster.
C2_BoundariesOnGraphemes ==
    \A j \in 1..Len(boundaries) :
        \/ \E g \in 1..Len(grapheme_offsets) : grapheme_offsets[g] = boundaries[j]
        \/ boundaries[j] = ByteLen(paragraph)

(***************************************************************************)
(* C3.  Language::segment never raises.                                    *)
(***************************************************************************)
\* C3: once the language is resolved, the scan and the slicing complete
\* for every text: no slice of the paragraph panics, and the call is never
\* held in get_skippable_ranges.
C3_NeverPanics == pc \notin {"panic", "skippable_ranges"}

(***************************************************************************)
(* C4.  Resolution: exact match, then the first fallback that resolves.    *)
(***************************************************************************)
\* The language the claim names for a code: the code itself when the
\* registry holds it, otherwise what the first entry of its fallback list
\* (the default list when it has none) that resolves resolves to.  fuel
\* bounds the descent.
RECURSIVE C4_Resolved(_, _, _)
C4_FirstResolved(c, list, fuel) ==
    LET ok == {x \in 1..Len(list) : C4_Resolved(c, list[x], fuel) # NoLanguage}
    IN IF ok = {} THEN NoLanguage ELSE C4_Resolved(c, list[Least(ok)], fuel)
C4_Resolved(c, code, fuel) ==
    IF code \in LANGUAGE_REGISTRY THEN code
    ELSE IF fuel = 0 THEN NoLanguage
    ELSE C4_FirstResolved(c,
             IF LANGUAGE_FALLBACKS(c, code) = Unconfigured
             THEN DEFAULT_FALLBACK_LANGUAGE(c) ELSE LANGUAGE_FALLBACKS(c, code),
             fuel - 1)
\* C4: when segment has resolved or failed, the language is the one the
\* claim names, and it failed, with the requested identifier in the error,
\* exactly when no entry of the chain resolves; the scan runs with the
\* terminators of the resolved language.
C4_ResolvesByFallback ==
    pc \notin {"resolve", "stack_overflow"} =>
        LET r == C4_Resolved(cfg, lang_code, MaxDepth)
        IN /\ (pc = "failed") <=> (r = NoLanguage)
           /\ pc = "failed" =>
                  /\ error = <<"Language not supported", lang_code>>
                  /\ sentences = <<>>
           /\ pc # "failed" => language = r /\ error = <<>>
           /\ pc = "scan" => matches = BreakMatches(r, paragraph)
\* C4 witness: a code the registry misses, whose first fallback does not
\* resolve and whose second does, has been segmented with the second.
C4_Witness ==
    /\ pc = "done" /\ cfg = "chains" /\ lang_code = "zh"
    /\ language = "en" /\ visits["yy"] = 1 /\ Len(sentences) >= 2

(***************************************************************************)
(* C5.  get_language terminates on an acyclic table.                       *)
(***************************************************************************)
\* The entries get_language descends into from a code: none when the
\* registry holds the code.
C5_Successors(c, code) ==
    IF code \in LANGUAGE_REGISTRY THEN {}
    ELSE LET list == IF LANGUAGE_FALLBACKS(c, code) = Unconfigured
                     THEN DEFAULT_FALLBACK_LANGUAGE(c)
                     ELSE LANGUAGE_FALLBACKS(c, code)
         IN {list[x] : x \in 1..Len(list)}
RECURSIVE C5_Closure(_, _)
C5_Closure(c, S) ==
    LET T == S \cup UNION {C5_Successors(c, a) : a \in S}
    IN IF T = S THEN S ELSE C5_Closure(c, T)
\* The codes the descent from a code can reach, the code itself left out
\* unless a cycle leads back to it.
C5_Reachable(c, code) == C5_Closure(c, C5_Successors(c, code))
C5_AcyclicConfigurations ==
    {c \in Configurations : \A a \in AllCodes : a \notin C5_Reachable(c, a)}
\* C5 as stated: on an acyclic table the recursion enters get_language at
\* most once for each identifier.
C5_VisitsAtMostOnce ==
    cfg \in C5_AcyclicConfigurations => \A c \in AllCodes : visits[c] <= 1
\* C5 as amended: on an acyclic table no identifier is on the recursion
\* stack twice, every frame is the requested identifier or one reachable
\* from it (so the depth is at most their number), the stack never
\* overflows, and the resolution ends, with a language or with none.
C5_StackBounded ==
    cfg \in C5_AcyclicConfigurations =>
        /\ pc # "stack_overflow"
        /\ \A a, b \in 1..Len(stack) : stack[a].code = stack[b].code => a = b
        /\ \A a \in 1..Len(stack) :
               stack[a].code \in {lang_code} \cup C5_Reachable(cfg, lang_code)
        /\ Len(stack) <= 1 + Cardinality(C5_Reachable(cfg, lang_code))
        /\ (pc = "resolve" /\ stack = <<>>) => ret \in {NoLanguage} \cup LANGUAGE_REGISTRY
C5_TerminatesOnAcyclic ==
    /\ [](C5_StackBounded)
    /\ (cfg \in C5_AcyclicConfigurations) =>
           <>(pc \notin {"resolve", "stack_overflow"})
\* C5 witness: on an acyclic table a resolution has failed after it entered
\* get_language twice for an identifier two fallback lists name.
C5_Witness ==
    /\ cfg \in C5_AcyclicConfigurations
    /\ pc = "failed" /\ lang_code = "aa" /\ visits["dd"] = 2

(***************************************************************************)
(* C6.  Sentences are trimmed and never empty.                             *)
(***************************************************************************)
\* C6: the returned list holds no empty string, and no sentence other than
\* the paragraph-break marker starts or ends with a plain space.
C6_TrimmedNonEmpty ==
    \A j \in 1..Len(sentences) :
        /\ sentences[j] # <<>>
        /\ sentences[j] # ParagraphBreak =>
               sentences[j][1] # SP /\ sentences[j][Len(sentences[j])] # SP

(***************************************************************************)
(* C7.  A run of numbered references forces the boundary after it.         *)
(***************************************************************************)
\* The text after the grapheme at the start of the match handled last.
LastTail ==
    Slice(paragraph, NextGrapheme(grapheme_offsets, last.mtch[1]),
          ByteLen(paragraph))
LastHead == Slice(paragraph, 0, last.mtch[1])
\* C7: when the text after the terminator begins with numbered references,
\* the boundary is forced, it is appended whatever the other rules say, and
\* it lies after the last reference: not before the end of the run, and no
\* further than the next grapheme offset.
C7_ForcedAfterReferences ==
    (/\ last.mtch # <<>>
     /\ NextGrapheme(grapheme_offsets, last.mtch[1]) # NONE
     /\ NumRefEnd(LastTail) > 0) =>
        LET run_end == NextGrapheme(grapheme_offsets, last.mtch[1])
                           + NumRefEnd(LastTail)
            b == boundaries[Len(boundaries)]
        IN /\ last.found.some /\ last.found.is_num_ref /\ last.kept
           /\ b = last.found.boundary
           /\ run_end <= b
           /\ \A g \in 1..Len(grapheme_offsets) :
                  grapheme_offsets[g] > run_end => b <= grapheme_offsets[g]

(***************************************************************************)
(* C8.  The first skip range that contains a boundary decides.             *)
(***************************************************************************)
\* C8: an accepted boundary that is not forced is appended as it is when no
\* skip range strictly contains it; otherwise the first such range in list
\* order decides: the boundary is appended as the end of the range when the
\* next grapheme offset is that end and the language has punctuation
\* between quotes, and nothing is appended otherwise.  So for a language
\* without punctuation between quotes, a terminator inside a skip range
\* appends nothing unless a reference run forces it.
C8_FirstRangeDecides ==
    LET b == last.found.boundary
        inside(r) == skippable_ranges[r][1] < b /\ b < skippable_ranges[r][2]
        first == {r \in 1..Len(skippable_ranges) :
                     inside(r) /\ \A e \in 1..(r - 1) : ~inside(e)}
        after == {g \in 1..Len(grapheme_offsets) : grapheme_offsets[g] > b}
        holds(r) == skippable_ranges[r][1] <= last.mtch[1]
                        /\ last.mtch[2] <= skippable_ranges[r][2]
    IN /\ (last.mtch # <<>> /\ last.found.some /\ ~last.found.is_num_ref) =>
              IF first = {}
              THEN last.kept /\ boundaries[Len(boundaries)] = b
              ELSE \A r \in first :
                       IF /\ IsPunctuationBetweenQuotes(language)
                          /\ after # {}
                          /\ grapheme_offsets[Least(after)] = skippable_ranges[r][2]
                       THEN /\ last.kept
                            /\ boundaries[Len(boundaries)] = skippable_ranges[r][2]
                       ELSE ~last.kept
       /\ (/\ last.mtch # <<>> /\ ~last.found.is_num_ref
           /\ ~IsPunctuationBetweenQuotes(language)
           /\ \E r \in 1..Len(skippable_ranges) : holds(r)) => ~last.kept
\* C8 witness: for a language with punctuation between quotes, an accepted
\* boundary lies in two skip ranges; the second ends at the next grapheme,
\* the first does not, and the boundary is discarded.
C8_Witness ==
    /\ last.mtch # <<>> /\ last.found.some /\ ~last.found.is_num_ref
    /\ IsPunctuationBetweenQuotes(language) /\ ~last.kept
    /\ \E r1, r2 \in 1..Len(skippable_ranges) :
           /\ r1 < r2
           /\ skippable_ranges[r1][1] < last.found.boundary
           /\ last.found.boundary < skippable_ranges[r1][2]
           /\ skippable_ranges[r2][1] < last.found.boundary
           /\ NextGrapheme(grapheme_offsets, last.found.boundary)
                  = skippable_ranges[r2][2]

(***************************************************************************)
(* C9.  A known abbreviation before its marker ends no sentence.           *)
(***************************************************************************)
\* C9: is_abbreviation is true exactly when the separator is the
\* abbreviation marker of the language and the last word of the head is
\* not empty and is in the abbreviation set as it is, with its first
\* letter lowercased, all lowercased or all uppercased; and a match for
\* which it is true appends no boundary unless a reference run forces one.
C9_AbbreviationRule ==
    (last.mtch # <<>> /\ NextGrapheme(grapheme_offsets, last.mtch[1]) # NONE) =>
        LET separator == GraphemeAt(paragraph, last.mtch[1])
            word == GetLastWord(language, LastHead)
            known == /\ separator = LangAbbreviationChar(language)
                     /\ word # <<>>
                     /\ \E w \in {word, <<ToLowerChar(word[1])>> \o Tail(word),
                                  ToLower(word), ToUpper(word)} :
                            w \in LangAbbreviations(language)
        IN /\ IsAbbreviation(language, LastHead, separator) <=> known
           /\ last.found.why = "abbreviation" => known
           /\ (known /\ ~last.found.is_num_ref) =>
                  ~last.found.some /\ ~last.kept
\* C9 witness: a word that only its uppercased form puts in the set stands
\* before the marker, what follows would not continue the sentence, and no
\* boundary is appended.
C9_Witness ==
    /\ last.mtch # <<>> /\ last.found.why = "abbreviation" /\ ~last.kept
    /\ GetLastWord(language, LastHead) \notin LangAbbreviations(language)
    /\ ToLower(GetLastWord(language, LastHead)) \notin LangAbbreviations(language)
    /\ ToUpper(GetLastWord(language, LastHead)) \in LangAbbreviations(language)

(***************************************************************************)
(* C10.  The empty text has no sentence.                                   *)
(***************************************************************************)
\* C10: for the empty text and an identifier of the registry, segment does
\* not fail and returns the empty list; so it does for every identifier
\* that resolves.
C10_EmptyTextEmptyList ==
    text = <<>> =>
        /\ lang_code \in SUPPORTED_LANGUAGES =>
               /\ pc \notin {"failed", "panic", "stack_overflow"}
               /\ error = <<>>
        /\ pc # "panic"
        /\ pc \in {"paragraph", "scan", "done"} => sentences = <<>>
\* C10 witness: segment has returned for the empty text and a registered
\* identifier, after the one empty paragraph was sliced.
C10_Witness ==
    /\ text = <<>> /\ lang_code = "hy" /\ pc = "done"
    /\ pi = 2 /\ sentences = <<>>

(***************************************************************************)
(* C11.  The paragraph-break marker stands between two paragraphs only.    *)
(***************************************************************************)
\* C11: in the list segment returns, the paragraph-break marker is never
\* the first element, never the last, and never next to another marker.
C11_MarkerOnlyBetween ==
    pc = "done" =>
        \A j \in 1..Len(sentences) :
            sentences[j] = ParagraphBreak =>
                /\ j > 1 /\ j < Len(sentences)
                /\ sentences[j + 1] # ParagraphBreak

(***************************************************************************)
(* C12.  An exclamation word is a word with the terminator after it.       *)
(***************************************************************************)
\* C12: is_exclamation_word is true exactly when the last word of the head
\* with the terminator character that follows it in the text is in the
\* exclamation-word set of the language, and a match is discarded by this
\* rule only then.
C12_ExclamationWordRule ==
    (last.mtch # <<>> /\ NextGrapheme(grapheme_offsets, last.mtch[1]) # NONE) =>
        LET terminator == paragraph[CharIndex(paragraph, last.mtch[1])]
            known == (GetLastWord(language, LastHead) \o <<terminator>>)
                         \in LangExclamationWords(language)
        IN /\ IsExclamationWord(language, LastHead) <=> known
           /\ last.found.why = "exclamation_word" => known

(***************************************************************************)
(* C13.  continue_in_next_word: the default, Russian, Danish and Kazakh.   *)
(***************************************************************************)
\* The first word character of the tail, after any run of characters that
\* are none, is in the class.
C13_WordStartsIn(tail, class) ==
    \E j \in 1..Len(tail) :
        tail[j] \in class /\ \A e \in 1..(j - 1) : ~IsWordChar(tail[e])
\* The languages with the default continue_in_next_word.
C13_DefaultLanguages ==
    SUPPORTED_LANGUAGES \ {"ru", "da", "kk", "de", "fi", "sk"}
\* C13 as stated: for Russian, Danish and Kazakh a match whose following
\* word starts with a lowercase Cyrillic letter appends no boundary unless
\* a reference run forces one, and the three variants agree on the tail.
C13_CyrillicInAllThree ==
    (/\ last.mtch # <<>>
     /\ NextGrapheme(grapheme_offsets, last.mtch[1]) # NONE
     /\ language \in {"ru", "da", "kk"}) =>
        /\ (C13_WordStartsIn(LastTail, CyrLower) /\ ~last.found.is_num_ref) =>
               ~last.found.some
        /\ ContinueInNextWord("ru", LastTail) = ContinueInNextWord("da", LastTail)
        /\ ContinueInNextWord("da", LastTail) = ContinueInNextWord("kk", LastTail)
\* C13 as amended: continue_in_next_word is true by default, and for
\* Russian, exactly when the first character of the tail is an ASCII
\* lowercase letter or digit (for Russian also a letter of а-я); for Danish
\* and Kazakh exactly when the first word character of the tail, after any
\* run of non-word characters, is an ASCII lowercase letter or digit (for
\* Kazakh also a letter of а-я).  A match for which it is true appends no
\* boundary unless a reference run forces one.
C13_ContinueRule ==
    (/\ last.mtch # <<>>
     /\ NextGrapheme(grapheme_offsets, last.mtch[1]) # NONE
     /\ language \in C13_DefaultLanguages \cup {"ru", "da", "kk"}) =>
        LET ascii == AsciiLower \cup AsciiDigit
            continues ==
                IF language = "ru"
                THEN LastTail # <<>> /\ LastTail[1] \in ascii \cup CyrLower
                ELSE IF language = "da" THEN C13_WordStartsIn(LastTail, ascii)
                ELSE IF language = "kk"
                THEN C13_WordStartsIn(LastTail, ascii \cup CyrLower)
                ELSE LastTail # <<>> /\ LastTail[1] \in ascii
        IN /\ ContinueInNextWord(language, LastTail) <=> continues
           /\ last.found.why = "continue_in_next_word" <=>
                  (continues /\ ~last.found.is_num_ref)
           /\ (continues /\ ~last.found.is_num_ref) =>
                  ~last.found.some /\ ~last.kept
\* C13 witness: in Danish a terminator is followed by a space and a
\* lowercase Cyrillic letter, and the boundary is accepted.
C13_Witness ==
    /\ language = "da" /\ last.mtch # <<>>
    /\ NextGrapheme(grapheme_offsets, last.mtch[1]) # NONE
    /\ C13_WordStartsIn(LastTail, CyrLower) /\ LastTail[1] = SP
    /\ last.found.why = "accepted" /\ last.kept

(***************************************************************************)
(* C14.  The slices between the boundaries partition the paragraph.        *)
(***************************************************************************)
\* C14: every resolved boundary lies between 0 and the length of the
\* paragraph, every slice between consecutive boundaries (the last one
\* ending at the length) has its start at or before its end, and the
\* slices, put together in order, are the paragraph.
C14_SlicesPartition ==
    boundaries # <<>> =>
        LET pairs == SlicePairs(boundaries, ByteLen(paragraph))
        IN /\ \A j \in 1..Len(boundaries) :
                  0 <= boundaries[j] /\ boundaries[j] <= ByteLen(paragraph)
           /\ \A j \in 1..Len(pairs) : pairs[j][1] <= pairs[j][2]
           /\ ~SlicesPanic(paragraph, boundaries) =>
                  Concat([j \in 1..Len(pairs) |->
                             Slice(paragraph, pairs[j][1], pairs[j][2])])
                      = paragraph

====
